---------------------------- MODULE Spec2Model ----------------------------
(***************************************************************************)
(* The VDE adapter layer of the segment crate: VDEVectorStorage,           *)
(* VDEVectorIndex and VDEPayloadStorage, each driving its own native       *)
(* collection through the vde_sys C boundary.                              *)
(*                                                                         *)
(* One behaviour of the model is the life of one adapter instance (the     *)
(* variable adapter says which of the three was constructed): the three    *)
(* adapters share no state in the source, each one creates its own engine  *)
(* handle and its own collection handle.                                   *)
(*                                                                         *)
(* An operation of an adapter is one action (the whole method, with every  *)
(* native call it makes); its return value is left in lastOp and the       *)
(* native calls it made in calls, until the caller takes the result        *)
(* (Return).  update_from is the one method modelled step by step, one     *)
(* loop iteration per step, because the cancellation flag it polls is      *)
(* written by another thread between iterations.                           *)
(***************************************************************************)
EXTENDS Integers, Sequences, FiniteSets, TLC

VARIABLES
    adapter,    \* which adapter this instance is: "storage", "index", "payload"
    pc,         \* "idle", "returned" (a result waits in lastOp), "update_from";
                \* "unbuilt", "failed" (the constructor returned Err), "dropped"
    engine,     \* the native collection: [vectors, payloads], by point offset
    deleted,    \* VDEVectorStorage.deleted: Vec<bool>, as a sequence (slot o is deleted[o+1])
    cache,      \* VDEPayloadStorage.cache: HashMap<PointOffsetType, Payload>
    stopped,    \* the AtomicBool handed to update_from
    upd,        \* the frame of the running update_from call
    lastOp,     \* the last operation and what it returned
    calls,      \* the native calls the last operation made, in order
    hist,       \* history: per offset, the last successful storage operation on it
    native,     \* the engine handle of the instance and the collection it is bound to
    conc        \* the threads inside get at the same time and the lock of the cache

vars == <<adapter, pc, engine, deleted, cache, stopped, upd, lastOp, calls, hist, native,
          conc>>

---------------------------------------------------------------------------
(* Bounds of the model *)

\* Point offsets are 0..MaxOffset.
MaxOffset == 2

\* The collection dimension every adapter instance is constructed with.
Dimension == 2

Offsets == 0..MaxOffset

\* Return codes of the native calls: 0 is success, anything else a failure.
RetCodes == {0, 1}

---------------------------------------------------------------------------
(* Vectors *)

\* VectorRef / CowVector / VectorInternal: a dense vector or another kind.
Dense(data) == [kind |-> "Dense", data |-> data]

Sparse == [kind |-> "Sparse", data |-> <<>>]

\* vec![0.0f32; n]
Zeros(n) == [i \in 1..n |-> 0]

\* A vector of n components that is not all zeros.
Unit(n) == [i \in 1..n |-> IF i = 1 THEN 1 ELSE 0]

\* The vectors the callers hand in: two of the collection's dimension (one
\* of them all zeros), one too short, one too long, one that is not dense.
GoodVectors == {Dense(Zeros(Dimension)), Dense(Unit(Dimension))}

BadVectors == {Dense(Unit(Dimension - 1)), Dense(Unit(Dimension + 1)), Sparse}

InputVectors == GoodVectors \cup BadVectors

---------------------------------------------------------------------------
(* JSON documents (Payload) *)

\* A JSON value is a function from paths (sequences of keys) to scalars: a
\* scalar n >= 1 is (<<>> :> n), the empty object is (<<>> :> 0), an object
\* with members maps the path of each of its leaves to the leaf (a scalar, or
\* 0 for an empty object).  No path of the domain is a proper prefix of
\* another.  The value that is not there has no leaf at all.
EmptyObj == (<<>> :> 0)

Absent == <<>>

IsAbsent(v) == DOMAIN v = {}

IsPrefix(p, q) == Len(p) <= Len(q) /\ SubSeq(q, 1, Len(p)) = p

Conflict(p, q) == IsPrefix(p, q) \/ IsPrefix(q, p)

Suffix(q, n) == SubSeq(q, n + 1, Len(q))

IsObject(v) == ~IsAbsent(v) /\ (<<>> \in DOMAIN v => v[<<>>] = 0)

\* The value at a path of a document, Absent when there is none.
ValueAt(doc, path) ==
    LET under == {q \in DOMAIN doc : IsPrefix(path, q)}
    IN  [s \in {Suffix(q, Len(path)) : q \in under} |-> doc[path \o s]]

\* The document with the value at path replaced by val, the objects on the
\* way made as needed.
Put(doc, path, val) ==
    LET keep == {q \in DOMAIN doc : ~Conflict(q, path)}
        new == {path \o s : s \in DOMAIN val}
    IN  [q \in keep \cup new |-> IF q \in new THEN val[Suffix(q, Len(path))] ELSE doc[q]]

\* Payload::merge: the members of src merged over those of dst, member by
\* member and recursively where both sides hold an object; src wins elsewhere.
Merge(dst, src) ==
    LET win == {q \in DOMAIN src : ~(src[q] = 0 /\ IsObject(ValueAt(dst, q)))}
        keep == {r \in DOMAIN dst : \A q \in win : ~Conflict(q, r)}
    IN  [q \in keep \cup win |-> IF q \in win THEN src[q] ELSE dst[q]]

\* Payload::merge_by_key: src merged into the object at path (an empty one if
\* the path holds no object).
MergeByKey(doc, src, path) ==
    LET old == ValueAt(doc, path)
    IN  Put(doc, path, Merge(IF IsObject(old) THEN old ELSE EmptyObj, src))

\* Payload::remove: the values removed from path and the document left.
Remove(doc, path) ==
    LET old == ValueAt(doc, path)
        left == {q \in DOMAIN doc : ~IsPrefix(path, q)}
        parent == SubSeq(path, 1, Len(path) - 1)
        emptied == IF \E q \in left : IsPrefix(parent, q) THEN {} ELSE {parent}
    IN  IF IsAbsent(old)
        THEN [removed |-> <<>>, rest |-> doc]
        ELSE [removed |-> <<old>>,
              rest |-> [q \in left \cup emptied |-> IF q \in left THEN doc[q] ELSE 0]]

---------------------------------------------------------------------------
(* The native engine, behind the C boundary *)

NoVector == [present |-> FALSE, data |-> <<>>]

NoPayload == [present |-> FALSE, doc |-> EmptyObj]

EmptyEngine ==
    [vectors |-> [o \in Offsets |-> NoVector], payloads |-> [o \in Offsets |-> NoPayload]]

\* One native call, as logged in calls.
Call(fn, id, rc) == [fn |-> fn, id |-> id, rc |-> rc]

\* vde_upsert_vector(collection, id, vector?, payload?): insert-or-replace of
\* the parts given; a non-zero return leaves the collection as it was.
vde_upsert_vector(e, id, vector, payload, rc) ==
    IF rc # 0 THEN e
    ELSE [vectors |-> IF vector.present THEN [e.vectors EXCEPT ![id] = vector] ELSE e.vectors,
          payloads |-> IF payload.present THEN [e.payloads EXCEPT ![id] = payload] ELSE e.payloads]

\* vde_delete_vector(collection, id): the point is no longer returned.
vde_delete_vector(e, id, rc) ==
    IF rc # 0 THEN e
    ELSE [vectors |-> [e.vectors EXCEPT ![id] = NoVector],
          payloads |-> [e.payloads EXCEPT ![id] = NoPayload]]

\* vde_get_vector(collection, id, out vector, null): 0 and the vector when the
\* point has one, non-zero (buffer untouched) when it has not.
vde_get_vector(e, id, buf) ==
    IF e.vectors[id].present
    THEN [rc |-> 0, data |-> e.vectors[id].data]
    ELSE [rc |-> 1, data |-> buf]

\* vde_get_vector(collection, id, null, out payload).
vde_get_payload(e, id) ==
    IF e.payloads[id].present
    THEN [rc |-> 0, doc |-> e.payloads[id].doc]
    ELSE [rc |-> 1, doc |-> EmptyObj]

---------------------------------------------------------------------------
(* Results of operations *)

NoRange == <<0, 0>>

\* The vector argument of an operation that takes none.
NoArg == [kind |-> "None", data |-> <<>>]

\* hist: nothing done yet at an offset, or the last successful insert (with
\* its vector) or delete.
NoHist == [op |-> "none", vec |-> <<>>]

\* The shape of lastOp: the operation, its point offset, the result kind
\* ("Ok", "ServiceError", "Cancelled"), the error message, and the value
\* returned, by type (flag: bool, vec: a vector, some: Option is Some, range,
\* lists: the result lists of search, doc: a payload, vals: the values delete
\* removed, visited: the (offset, document) pairs handed to the callback of
\* iter).  arg, queries, top, payload and path keep what the operation was
\* called with, created whether it made a point that the collection had never
\* held, answers what the engine answered the queries of a search with and
\* replies what the callback of iter returned at each call made; code is the
\* native return code an error message carries (0 when it carries none) and
\* marked whether the offset of an insert_vector was marked deleted when the
\* call began.
Ret(op, key, res, msg) ==
    [op |-> op, key |-> key, res |-> res, msg |-> msg,
     flag |-> FALSE, vec |-> <<>>, some |-> FALSE, range |-> NoRange,
     lists |-> <<>>, doc |-> Absent, vals |-> <<>>,
     arg |-> NoArg, queries |-> <<>>, created |-> FALSE,
     payload |-> Absent, path |-> <<>>, visited |-> <<>>,
     top |-> 0, answers |-> <<>>, replies |-> <<>>, code |-> 0,
     marked |-> FALSE]

NoOp == Ret("none", 0, "Ok", "")

IdleUpd == [items |-> <<>>, idx |-> 0, start |-> -1, end |-> 0,
            fresh |-> FALSE, stoppedAt |-> -1]

---------------------------------------------------------------------------
(* VDEVectorStorage *)

\* deleted.resize(key + 1, false) when deleted.len() <= key
Grow(d, key) ==
    IF Len(d) <= key THEN d \o [i \in 1..(key + 1 - Len(d)) |-> FALSE] ELSE d

\* get_vector_internal that hands back its buffer without looking at the code
\* the native get returned.
get_vector_internal_unchecked(e, key) ==
    [ok |-> TRUE, data |-> vde_get_vector(e, key, Zeros(Dimension)).data]

\* get_vector_internal: the native get into a zeroed buffer of the dimension.
get_vector_internal(e, key) ==
    LET got == vde_get_vector(e, key, Zeros(Dimension))
    IN  IF got.rc # 0
        THEN [ok |-> FALSE, data |-> <<>>]
        ELSE [ok |-> TRUE, data |-> got.data]

\* get_vector that hands back its zeroed buffer, whatever the engine holds.
get_vector_zeroed(e, key) == Zeros(Dimension)

\* get_vector: get_vector_internal(key).unwrap_or_default()
get_vector_value(e, key) ==
    LET r == get_vector_internal(e, key)
    IN  IF r.ok THEN r.data ELSE <<>>

\* is_deleted_vector
is_deleted_vector(key) ==
    IF key >= Len(deleted) THEN FALSE ELSE deleted[key + 1]

\* deleted_vector_count
deleted_vector_count ==
    Cardinality({i \in 1..Len(deleted) : deleted[i]})

\* deleted_vector_bitslice: BitSlice::empty()
deleted_vector_bitslice == <<>>

\* insert_vector that sets the slot only where the tracking vector already
\* has one.
InsertTrackingNoGrow(d, key) ==
    IF key < Len(d) THEN [d EXCEPT ![key + 1] = FALSE] ELSE d

\* insert_vector that grows the tracking vector and leaves the slot as it was.
InsertTrackingGrowOnly(d, key) == Grow(d, key)

\* The tracking vector after a successful insert of key.
InsertTracking(d, key) == [Grow(d, key) EXCEPT ![key + 1] = FALSE]

\* delete_vector that grows the tracking vector and forgets to set the slot.
DeleteTrackingUnset(d, key) == Grow(d, key)

\* The tracking vector after a successful delete of key.
DeleteTracking(d, key) == [Grow(d, key) EXCEPT ![key + 1] = TRUE]

\* The outcome of insert_vector(key, vector) on a storage of dimension dim
\* when the native upsert, if it is reached, returns rc: the result, the
\* native calls made, the new engine, tracking vector and history.
InsertChecked(e, d, h, key, vector, rc, dim) ==
    IF vector.kind # "Dense"
    THEN [ret |-> Ret("insert_vector", key, "ServiceError", "VDE only supports dense vectors"),
          calls |-> <<>>, engine |-> e, deleted |-> d, hist |-> h]
    ELSE IF Len(vector.data) # dim
    THEN [ret |-> Ret("insert_vector", key, "ServiceError", "Vector dimension mismatch"),
          calls |-> <<>>, engine |-> e, deleted |-> d, hist |-> h]
    ELSE IF rc # 0
    THEN [ret |-> Ret("insert_vector", key, "ServiceError", "Failed to insert vector"),
          calls |-> <<Call("vde_upsert_vector", key, rc)>>,
          engine |-> vde_upsert_vector(e, key, [present |-> TRUE, data |-> vector.data], NoPayload, rc),
          deleted |-> d, hist |-> h]
    ELSE [ret |-> Ret("insert_vector", key, "Ok", ""),
          calls |-> <<Call("vde_upsert_vector", key, rc)>>,
          engine |-> vde_upsert_vector(e, key, [present |-> TRUE, data |-> vector.data], NoPayload, rc),
          deleted |-> InsertTracking(d, key),
          hist |-> [h EXCEPT ![key] = [op |-> "insert", vec |-> vector.data]]]

\* insert_vector with the dimension check left out.
InsertOutcomeUnchecked(e, d, h, key, vector, rc) ==
    InsertChecked(e, d, h, key, vector, rc, Len(vector.data))

\* insert_vector of this storage: self.dimension is the collection dimension.
InsertOutcome(e, d, h, key, vector, rc) ==
    InsertChecked(e, d, h, key, vector, rc, Dimension)

\* delete_vector that marks the slot before it looks at the native result.
DeleteOutcomeMarksFirst(e, d, h, key, rc) ==
    IF rc # 0
    THEN [ret |-> Ret("delete_vector", key, "ServiceError", "Failed to delete vector"),
          calls |-> <<Call("vde_delete_vector", key, rc)>>,
          engine |-> vde_delete_vector(e, key, rc),
          deleted |-> [Grow(d, key) EXCEPT ![key + 1] = TRUE], hist |-> h]
    ELSE [ret |-> [Ret("delete_vector", key, "Ok", "") EXCEPT !.flag = ~Grow(d, key)[key + 1]],
          calls |-> <<Call("vde_delete_vector", key, rc)>>,
          engine |-> vde_delete_vector(e, key, rc),
          deleted |-> [Grow(d, key) EXCEPT ![key + 1] = TRUE],
          hist |-> [h EXCEPT ![key] = [op |-> "delete", vec |-> <<>>]]]

\* The outcome of delete_vector(key) when the native delete returns rc.
DeleteOutcome(e, d, h, key, rc) ==
    IF rc # 0
    THEN [ret |-> Ret("delete_vector", key, "ServiceError", "Failed to delete vector"),
          calls |-> <<Call("vde_delete_vector", key, rc)>>,
          engine |-> vde_delete_vector(e, key, rc), deleted |-> d, hist |-> h]
    ELSE [ret |-> [Ret("delete_vector", key, "Ok", "") EXCEPT !.flag = ~Grow(d, key)[key + 1]],
          calls |-> <<Call("vde_delete_vector", key, rc)>>,
          engine |-> vde_delete_vector(e, key, rc),
          deleted |-> DeleteTracking(d, key),
          hist |-> [h EXCEPT ![key] = [op |-> "delete", vec |-> <<>>]]]

\* The caller takes the result of the last operation.
Return ==
    /\ pc = "returned"
    /\ pc' = "idle"
    /\ lastOp' = NoOp
    /\ calls' = <<>>
    /\ upd' = IdleUpd
    /\ UNCHANGED <<adapter, conc, native, engine, deleted, cache, stopped, hist>>

insert_vector(key, vector) ==
    /\ adapter = "storage" /\ pc = "idle"
    /\ \E rc \in RetCodes :
         LET out == InsertOutcome(engine, deleted, hist, key, vector, rc)
         IN  /\ lastOp' = [out.ret EXCEPT !.arg = vector,
                                          !.marked = is_deleted_vector(key)]
             /\ calls' = out.calls
             /\ engine' = out.engine
             /\ deleted' = out.deleted
             /\ hist' = out.hist
    /\ pc' = "returned"
    /\ UNCHANGED <<adapter, conc, native, cache, stopped, upd>>

delete_vector(key) ==
    /\ adapter = "storage" /\ pc = "idle"
    /\ \E rc \in RetCodes :
         LET out == DeleteOutcome(engine, deleted, hist, key, rc)
         IN  /\ lastOp' = out.ret
             /\ calls' = out.calls
             /\ engine' = out.engine
             /\ deleted' = out.deleted
             /\ hist' = out.hist
    /\ pc' = "returned"
    /\ UNCHANGED <<adapter, conc, native, cache, stopped, upd>>

get_vector(key) ==
    /\ adapter = "storage" /\ pc = "idle"
    /\ lastOp' = [Ret("get_vector", key, "Ok", "") EXCEPT !.vec = get_vector_value(engine, key)]
    /\ calls' = <<Call("vde_get_vector", key, vde_get_vector(engine, key, Zeros(Dimension)).rc)>>
    /\ pc' = "returned"
    /\ UNCHANGED <<adapter, conc, native, engine, deleted, cache, stopped, upd, hist>>

get_vector_opt(key) ==
    /\ adapter = "storage" /\ pc = "idle"
    /\ LET r == get_vector_internal(engine, key)
       IN  lastOp' = [Ret("get_vector_opt", key, "Ok", "") EXCEPT !.some = r.ok, !.vec = r.data]
    /\ calls' = <<Call("vde_get_vector", key, vde_get_vector(engine, key, Zeros(Dimension)).rc)>>
    /\ pc' = "returned"
    /\ UNCHANGED <<adapter, conc, native, engine, deleted, cache, stopped, upd, hist>>

\* The (vector, deleted) pairs an update_from sequence is made of: live
\* vectors of the right dimension, a tombstoned one, a live one of the wrong
\* dimension and a live one that is not dense.
ItemChoices ==
    {[vector |-> Dense(Zeros(Dimension)), deleted |-> FALSE],
     [vector |-> Dense(Unit(Dimension)), deleted |-> TRUE],
     [vector |-> Dense(Unit(Dimension - 1)), deleted |-> FALSE],
     [vector |-> Sparse, deleted |-> FALSE]}

\* The sequences update_from is called with: item i goes to offset i.
ItemSeqs == UNION {[1..n -> ItemChoices] : n \in 0..(MaxOffset + 1)}

\* update_from is entered: start = None, end = 0, nothing consumed yet.
update_from(items, stop0) ==
    /\ adapter = "storage" /\ pc = "idle"
    /\ pc' = "update_from"
    /\ stopped' = stop0
    /\ upd' = [items |-> items, idx |-> 0, start |-> -1, end |-> 0,
               fresh |-> (deleted = <<>>),
               stoppedAt |-> IF stop0 THEN 0 ELSE -1]
    /\ lastOp' = NoOp
    /\ calls' = <<>>
    /\ UNCHANGED <<adapter, conc, native, engine, deleted, cache, hist>>

\* Another thread sets the cancellation flag while update_from runs.
set_stopped ==
    /\ pc = "update_from" /\ ~stopped
    /\ stopped' = TRUE
    /\ upd' = [upd EXCEPT !.stoppedAt = upd.idx]
    /\ UNCHANGED <<adapter, conc, native, pc, engine, deleted, cache, lastOp, calls, hist>>

\* update_from whose range ends at the last offset instead of one past it.
UpdateFromReturnInclusive(res, msg, start, end) ==
    /\ pc' = "returned"
    /\ lastOp' = [Ret("update_from", 0, res, msg) EXCEPT
                    !.range = <<IF start = -1 THEN 0 ELSE start,
                                IF end > 0 THEN end - 1 ELSE 0>>]

\* update_from returns start.unwrap_or(0)..end; the frame stays readable until
\* the caller takes the result.
UpdateFromReturn(res, msg, start, end) ==
    /\ pc' = "returned"
    /\ lastOp' = [Ret("update_from", 0, res, msg) EXCEPT
                    !.range = <<IF start = -1 THEN 0 ELSE start, end>>]

\* update_from that puts its items after the offsets the tracking vector
\* covers, while there is room.
UpdateKeyAppended(idx) ==
    IF idx + Len(deleted) <= MaxOffset THEN idx + Len(deleted) ELSE idx

\* let key = idx as PointOffsetType, idx counted by enumerate() from 0.
UpdateKey(idx) == idx

\* One iteration of the loop of update_from, polled being the value the flag
\* is read as: the iterator's next item, the poll, then insert_vector or
\* delete_vector at offset idx; or the end of the loop when the iterator is
\* exhausted.
UpdateFromIteration(polled) ==
    /\ pc = "update_from"
    /\ IF upd.idx >= Len(upd.items)
       THEN /\ UpdateFromReturn("Ok", "", upd.start, upd.end)
            /\ UNCHANGED <<engine, deleted, hist, calls, upd>>
       ELSE IF polled
       THEN /\ UpdateFromReturn("Cancelled", "Update cancelled", upd.start, upd.end)
            /\ UNCHANGED <<engine, deleted, hist, calls, upd>>
       ELSE LET key == UpdateKey(upd.idx)
                item == upd.items[upd.idx + 1]
                start == IF upd.start = -1 THEN key ELSE upd.start
            IN  \E rc \in RetCodes :
                  LET out == IF item.deleted
                             THEN DeleteOutcome(engine, deleted, hist, key, rc)
                             ELSE InsertOutcome(engine, deleted, hist, key, item.vector, rc)
                  IN  /\ engine' = out.engine
                      /\ deleted' = out.deleted
                      /\ hist' = out.hist
                      /\ calls' = calls \o out.calls
                      /\ IF out.ret.res = "Ok"
                         THEN /\ upd' = [upd EXCEPT !.idx = upd.idx + 1, !.start = start, !.end = key + 1]
                              /\ UNCHANGED <<pc, lastOp>>
                         ELSE /\ upd' = [upd EXCEPT !.start = start, !.end = key + 1]
                              /\ UpdateFromReturn(out.ret.res, out.ret.msg, start, key + 1)
    /\ UNCHANGED <<adapter, conc, native, cache, stopped>>

\* The loop of update_from with the poll of the flag left out.
update_from_step_unpolled == UpdateFromIteration(FALSE)

\* One step of update_from: stopped.load(Relaxed) is what the iteration polls.
update_from_step == UpdateFromIteration(stopped)

---------------------------------------------------------------------------
(* VDEVectorIndex *)

\* The most queries in one search batch.
MaxQueries == 2

\* The largest top a search is called with.
MaxTop == 2

\* The query vectors of a search: one of the collection dimension, one too
\* short, one that is not QueryVector::Nearest(VectorInternal::Dense).
QueryChoices == {Dense(Unit(Dimension)), Dense(Unit(Dimension - 1)), Sparse}

QueryBatches == UNION {[1..n -> QueryChoices] : n \in 0..MaxQueries}

\* Option<&Filter>: none, one that serializes, one serde_json refuses.
NoFilter == [present |-> FALSE, serializable |-> TRUE]

FilterChoices ==
    {NoFilter, [present |-> TRUE, serializable |-> TRUE],
     [present |-> TRUE, serializable |-> FALSE]}

\* VDESearchResult { offset, score }
Hit(offset, score) == [offset |-> offset, score |-> score]

\* vec![VDESearchResult { offset: 0, score: 0.0 }; top]
ZeroHit == Hit(0, 0)

HitChoices == {Hit(0, 2), Hit(1, 1)}

\* What vde_search / vde_search_filtered may answer a query with: a non-zero
\* code, or 0 with count <= top results written to the head of the buffer.
EngineAnswers(top) ==
    {[rc |-> 1, hits |-> <<>>]}
        \cup {[rc |-> 0, hits |-> h] : h \in UNION {[1..n -> HitChoices] : n \in 0..top}}

\* search that converts the whole buffer of top slots, not the count written.
ScoredPointsWholeBuffer(top, answer) ==
    LET buffer == [i \in 1..top |-> IF i <= Len(answer.hits) THEN answer.hits[i] ELSE ZeroHit]
    IN  [i \in 1..top |-> [idx |-> buffer[i].offset, score |-> buffer[i].score]]

\* results[..result_count] as ScoredPointOffset, from a buffer of top zeroed
\* slots whose head the engine wrote.
ScoredPoints(top, answer) ==
    LET buffer == [i \in 1..top |-> IF i <= Len(answer.hits) THEN answer.hits[i] ELSE ZeroHit]
    IN  [i \in 1..Len(answer.hits) |-> [idx |-> buffer[i].offset, score |-> buffer[i].score]]

SearchError(msg, code, cs) ==
    [res |-> "ServiceError", msg |-> msg, code |-> code, lists |-> <<>>, calls |-> cs]

\* The loop of search from query i on, answers[i] being the engine's answer
\* to query i if it is asked, all the result lists so far and cs the native
\* calls so far.
RECURSIVE SearchLoop(_, _, _, _, _, _, _)
SearchLoop(i, queries, filter, top, answers, all, cs) ==
    IF i > Len(queries)
    THEN [res |-> "Ok", msg |-> "", code |-> 0, lists |-> all, calls |-> cs]
    ELSE IF queries[i].kind # "Dense"
    THEN SearchError("VDE only supports dense vectors", 0, cs)
    ELSE IF Len(queries[i].data) # Dimension
    THEN SearchError("Vector dimension mismatch", 0, cs)
    ELSE IF filter.present /\ ~filter.serializable
    THEN SearchError("Failed to serialize filter", 0, cs)
    ELSE LET fn == IF filter.present THEN "vde_search_filtered" ELSE "vde_search"
             done == cs \o <<Call(fn, i - 1, answers[i].rc)>>
         IN  IF answers[i].rc # 0
             THEN SearchError("VDE search failed", answers[i].rc, done)
             ELSE SearchLoop(i + 1, queries, filter, top, answers,
                             Append(all, ScoredPoints(top, answers[i])), done)

\* How many queries of a batch the loop of search can hand to the engine: those
\* before the first one a check refuses, none when the filter does not
\* serialize.  The engine answers no more than these.
Askable(queries, filter) ==
    LET refused == {i \in 1..Len(queries) :
                       queries[i].kind # "Dense" \/ Len(queries[i].data) # Dimension}
        first == IF refused = {} THEN Len(queries) + 1
                 ELSE CHOOSE i \in refused : \A j \in refused : i <= j
    IN  IF filter.present /\ ~filter.serializable THEN 0 ELSE first - 1

search(queries, filter, top) ==
    /\ adapter = "index" /\ pc = "idle"
    /\ \E answers \in [1..Askable(queries, filter) -> EngineAnswers(top)] :
         LET out == SearchLoop(1, queries, filter, top, answers, <<>>, <<>>)
         IN  /\ lastOp' = [Ret("search", 0, out.res, out.msg) EXCEPT
                             !.lists = out.lists, !.queries = queries, !.top = top,
                             !.code = out.code,
                             !.answers = IF out.res = "Ok" THEN answers ELSE <<>>]
             /\ calls' = out.calls
    /\ pc' = "returned"
    /\ UNCHANGED <<adapter, conc, native, engine, deleted, cache, stopped, upd, hist>>

\* Option<VectorRef>
NoneVector == NoArg

UpdateChoices == {NoneVector, Dense(Unit(Dimension)), Dense(Unit(Dimension - 1)), Sparse}

\* update_vector that refuses a vector for an offset the collection does not
\* hold, as an update of existing points only would.
UpdateOutcomeExistingOnly(e, id, vector, rc) ==
    IF vector.kind = "None"
    THEN [res |-> IF rc # 0 THEN "ServiceError" ELSE "Ok",
          msg |-> IF rc # 0 THEN "Failed to delete vector" ELSE "", code |-> rc,
          calls |-> <<Call("vde_delete_vector", id, rc)>>,
          engine |-> vde_delete_vector(e, id, rc)]
    ELSE IF vector.kind # "Dense"
    THEN [res |-> "ServiceError", msg |-> "VDE only supports dense vectors", code |-> 0,
          calls |-> <<>>, engine |-> e]
    ELSE IF ~e.vectors[id].present
    THEN [res |-> "ServiceError", msg |-> "Not found", code |-> 0,
          calls |-> <<>>, engine |-> e]
    ELSE [res |-> IF rc # 0 THEN "ServiceError" ELSE "Ok",
          msg |-> IF rc # 0 THEN "Failed to upsert vector" ELSE "", code |-> rc,
          calls |-> <<Call("vde_upsert_vector", id, rc)>>,
          engine |-> vde_upsert_vector(e, id, [present |-> TRUE, data |-> vector.data], NoPayload, rc)]

\* update_vector that returns Ok whatever the native call returned.
UpdateOutcomeIgnoresCode(e, id, vector, rc) ==
    IF vector.kind = "None"
    THEN [res |-> "Ok", msg |-> "", code |-> 0,
          calls |-> <<Call("vde_delete_vector", id, rc)>>,
          engine |-> vde_delete_vector(e, id, rc)]
    ELSE IF vector.kind # "Dense"
    THEN [res |-> "ServiceError", msg |-> "VDE only supports dense vectors", code |-> 0,
          calls |-> <<>>, engine |-> e]
    ELSE [res |-> "Ok", msg |-> "", code |-> 0,
          calls |-> <<Call("vde_upsert_vector", id, rc)>>,
          engine |-> vde_upsert_vector(e, id, [present |-> TRUE, data |-> vector.data], NoPayload, rc)]

\* update_vector that replaces a vector by a delete followed by an upsert.
UpdateOutcomeDeleteThenUpsert(e, id, vector, rc) ==
    IF vector.kind = "None"
    THEN [res |-> IF rc # 0 THEN "ServiceError" ELSE "Ok",
          msg |-> IF rc # 0 THEN "Failed to delete vector" ELSE "", code |-> rc,
          calls |-> <<Call("vde_delete_vector", id, rc)>>,
          engine |-> vde_delete_vector(e, id, rc)]
    ELSE IF vector.kind # "Dense"
    THEN [res |-> "ServiceError", msg |-> "VDE only supports dense vectors", code |-> 0,
          calls |-> <<>>, engine |-> e]
    ELSE [res |-> IF rc # 0 THEN "ServiceError" ELSE "Ok",
          msg |-> IF rc # 0 THEN "Failed to upsert vector" ELSE "", code |-> rc,
          calls |-> <<Call("vde_delete_vector", id, 0), Call("vde_upsert_vector", id, rc)>>,
          engine |-> vde_upsert_vector(vde_delete_vector(e, id, 0), id,
                                       [present |-> TRUE, data |-> vector.data], NoPayload, rc)]

\* The outcome of update_vector(id, vector) when the native call, if one is
\* made, returns rc.
UpdateOutcome(e, id, vector, rc) ==
    IF vector.kind = "None"
    THEN [res |-> IF rc # 0 THEN "ServiceError" ELSE "Ok",
          msg |-> IF rc # 0 THEN "Failed to delete vector" ELSE "", code |-> rc,
          calls |-> <<Call("vde_delete_vector", id, rc)>>,
          engine |-> vde_delete_vector(e, id, rc)]
    ELSE IF vector.kind # "Dense"
    THEN [res |-> "ServiceError", msg |-> "VDE only supports dense vectors", code |-> 0,
          calls |-> <<>>, engine |-> e]
    ELSE [res |-> IF rc # 0 THEN "ServiceError" ELSE "Ok",
          msg |-> IF rc # 0 THEN "Failed to upsert vector" ELSE "", code |-> rc,
          calls |-> <<Call("vde_upsert_vector", id, rc)>>,
          engine |-> vde_upsert_vector(e, id, [present |-> TRUE, data |-> vector.data], NoPayload, rc)]

update_vector(id, vector) ==
    /\ adapter = "index" /\ pc = "idle"
    /\ \E rc \in RetCodes :
         LET out == UpdateOutcome(engine, id, vector, rc)
         IN  /\ lastOp' = [Ret("update_vector", id, out.res, out.msg) EXCEPT
                             !.arg = vector, !.code = out.code,
                             !.created = /\ out.res = "Ok"
                                         /\ vector.kind = "Dense"
                                         /\ ~engine.vectors[id].present
                                         /\ hist[id].op = "none"]
             /\ calls' = out.calls
             /\ engine' = out.engine
             /\ hist' = IF out.res # "Ok" THEN hist
                        ELSE IF vector.kind = "None"
                        THEN [hist EXCEPT ![id] = [op |-> "delete", vec |-> <<>>]]
                        ELSE [hist EXCEPT ![id] = [op |-> "insert", vec |-> vector.data]]
    /\ pc' = "returned"
    /\ UNCHANGED <<adapter, conc, native, deleted, cache, stopped, upd>>

\* The most explicit save calls made on one index.
MaxSaves == 2

\* VDEVectorIndex::save
save ==
    /\ adapter = "index" /\ pc = "idle"
    /\ native.saves < MaxSaves
    /\ \E rc \in RetCodes :
         /\ lastOp' = [Ret("save", 0, IF rc # 0 THEN "ServiceError" ELSE "Ok",
                           IF rc # 0 THEN "Failed to save VDE snapshot" ELSE "")
                         EXCEPT !.code = rc]
         /\ calls' = <<Call("vde_save_snapshot", 0, rc)>>
    /\ native' = [native EXCEPT !.saves = native.saves + 1]
    /\ pc' = "returned"
    /\ UNCHANGED <<adapter, conc, engine, deleted, cache, stopped, upd, hist>>

---------------------------------------------------------------------------
(* VDEPayloadStorage *)

\* The largest point offset the payload operations are called with.
MaxPoint == 1

Points == 0..MaxPoint

\* The payloads the callers hand in.
PayloadChoices ==
    {(<<"a">> :> 1), (<<"a">> :> 2) @@ (<<"b">> :> 1)}

\* The JSON paths the callers hand in.
PathChoices == {<<"a">>, <<"a", "b">>}

\* get_payload_internal that caches the default payload of a native miss.
GetOutcomeCachesMiss(e, c, id) ==
    IF ~IsAbsent(c[id])
    THEN [res |-> "Ok", msg |-> "", doc |-> c[id], cache |-> c, calls |-> <<>>]
    ELSE LET got == vde_get_payload(e, id)
         IN  [res |-> "Ok", msg |-> "", doc |-> got.doc,
              cache |-> [c EXCEPT ![id] = got.doc],
              calls |-> <<Call("vde_get_vector", id, got.rc)>>]

\* What get_payload_internal(point_id) returns and does: the cached payload;
\* or, on a miss, the engine's document, which it caches; or the default
\* payload, uncached, when the native get returns non-zero.
GetOutcome(e, c, id) ==
    IF ~IsAbsent(c[id])
    THEN [res |-> "Ok", msg |-> "", doc |-> c[id], cache |-> c, calls |-> <<>>]
    ELSE LET got == vde_get_payload(e, id)
         IN  IF got.rc # 0
             THEN [res |-> "Ok", msg |-> "", doc |-> EmptyObj, cache |-> c,
                   calls |-> <<Call("vde_get_vector", id, got.rc)>>]
             ELSE [res |-> "Ok", msg |-> "", doc |-> got.doc,
                   cache |-> [c EXCEPT ![id] = got.doc],
                   calls |-> <<Call("vde_get_vector", id, got.rc)>>]

\* get(point_id) as a function of the state: the payload it returns.
payload_value(e, c, id) == GetOutcome(e, c, id).doc

\* set_payload_internal that writes to the engine and leaves the cache alone.
SetOutcomeUncached(e, c, id, doc, rc) ==
    [res |-> IF rc # 0 THEN "ServiceError" ELSE "Ok",
     msg |-> IF rc # 0 THEN "Failed to set payload" ELSE "",
     engine |-> vde_upsert_vector(e, id, NoVector, [present |-> TRUE, doc |-> doc], rc),
     cache |-> c,
     calls |-> <<Call("vde_upsert_vector", id, rc)>>]

\* set_payload_internal that caches the payload before it looks at the native
\* result.
SetOutcomeCachesFirst(e, c, id, doc, rc) ==
    [res |-> IF rc # 0 THEN "ServiceError" ELSE "Ok",
     msg |-> IF rc # 0 THEN "Failed to set payload" ELSE "",
     engine |-> vde_upsert_vector(e, id, NoVector, [present |-> TRUE, doc |-> doc], rc),
     cache |-> [c EXCEPT ![id] = doc],
     calls |-> <<Call("vde_upsert_vector", id, rc)>>]

\* What set_payload_internal(point_id, payload) returns and does when the
\* native upsert returns rc.
SetOutcome(e, c, id, doc, rc) ==
    [res |-> IF rc # 0 THEN "ServiceError" ELSE "Ok",
     msg |-> IF rc # 0 THEN "Failed to set payload" ELSE "",
     engine |-> vde_upsert_vector(e, id, NoVector, [present |-> TRUE, doc |-> doc], rc),
     cache |-> IF rc # 0 THEN c ELSE [c EXCEPT ![id] = doc],
     calls |-> <<Call("vde_upsert_vector", id, rc)>>]

\* set that writes the partial payload it was given instead of the merged one.
SetDocumentPartial(existing, payload) == payload

\* The document set writes back: existing.merge(payload).
SetDocument(existing, payload) == Merge(existing, payload)

\* clear that leaves the entry set_payload_internal has just cached.
ClearCacheKept(c, id) == c

\* The cache after clear's cache.remove(&point_id).
ClearCache(c, id) == [c EXCEPT ![id] = Absent]

get(point_id) ==
    /\ adapter = "payload" /\ pc = "idle"
    /\ LET g == GetOutcome(engine, cache, point_id)
       IN  /\ lastOp' = [Ret("get", point_id, g.res, g.msg) EXCEPT !.doc = g.doc]
           /\ calls' = g.calls
           /\ cache' = g.cache
    /\ pc' = "returned"
    /\ UNCHANGED <<adapter, conc, native, engine, deleted, stopped, upd, hist>>

overwrite(point_id, payload) ==
    /\ adapter = "payload" /\ pc = "idle"
    /\ \E rc \in RetCodes :
         LET st == SetOutcome(engine, cache, point_id, payload, rc)
         IN  /\ lastOp' = [Ret("overwrite", point_id, st.res, st.msg) EXCEPT !.payload = payload]
             /\ calls' = st.calls
             /\ engine' = st.engine
             /\ cache' = st.cache
    /\ pc' = "returned"
    /\ UNCHANGED <<adapter, conc, native, deleted, stopped, upd, hist>>

set(point_id, payload) ==
    /\ adapter = "payload" /\ pc = "idle"
    /\ \E rc \in RetCodes :
         LET g == GetOutcome(engine, cache, point_id)
             st == SetOutcome(engine, g.cache, point_id, SetDocument(g.doc, payload), rc)
         IN  /\ lastOp' = [Ret("set", point_id, st.res, st.msg) EXCEPT !.payload = payload]
             /\ calls' = g.calls \o st.calls
             /\ engine' = st.engine
             /\ cache' = st.cache
    /\ pc' = "returned"
    /\ UNCHANGED <<adapter, conc, native, deleted, stopped, upd, hist>>

set_by_key(point_id, payload, key) ==
    /\ adapter = "payload" /\ pc = "idle"
    /\ \E rc \in RetCodes :
         LET g == GetOutcome(engine, cache, point_id)
             st == SetOutcome(engine, g.cache, point_id, MergeByKey(g.doc, payload, key), rc)
         IN  /\ lastOp' = [Ret("set_by_key", point_id, st.res, st.msg) EXCEPT
                             !.payload = payload, !.path = key]
             /\ calls' = g.calls \o st.calls
             /\ engine' = st.engine
             /\ cache' = st.cache
    /\ pc' = "returned"
    /\ UNCHANGED <<adapter, conc, native, deleted, stopped, upd, hist>>

delete(point_id, key) ==
    /\ adapter = "payload" /\ pc = "idle"
    /\ \E rc \in RetCodes :
         LET g == GetOutcome(engine, cache, point_id)
             rm == Remove(g.doc, key)
             st == SetOutcome(engine, g.cache, point_id, rm.rest, rc)
         IN  /\ lastOp' = [Ret("delete", point_id, st.res, st.msg) EXCEPT
                             !.vals = IF st.res = "Ok" THEN rm.removed ELSE <<>>,
                             !.path = key]
             /\ calls' = g.calls \o st.calls
             /\ engine' = st.engine
             /\ cache' = st.cache
    /\ pc' = "returned"
    /\ UNCHANGED <<adapter, conc, native, deleted, stopped, upd, hist>>

clear(point_id) ==
    /\ adapter = "payload" /\ pc = "idle"
    /\ \E rc \in RetCodes :
         LET g == GetOutcome(engine, cache, point_id)
             st == SetOutcome(engine, g.cache, point_id, EmptyObj, rc)
         IN  /\ lastOp' = [Ret("clear", point_id, st.res, st.msg) EXCEPT
                             !.some = (st.res = "Ok" /\ g.res = "Ok"),
                             !.doc = IF st.res = "Ok" /\ g.res = "Ok" THEN g.doc ELSE Absent]
             /\ calls' = g.calls \o st.calls
             /\ engine' = st.engine
             /\ cache' = IF st.res = "Ok" THEN ClearCache(st.cache, point_id) ELSE st.cache
    /\ pc' = "returned"
    /\ UNCHANGED <<adapter, conc, native, deleted, stopped, upd, hist>>

\* iter that walks the documents of the engine instead of the cache.
IterSourceEngine(e, c) == {o \in DOMAIN c : e.payloads[o].present}

\* The offsets iter walks: the keys of the cache.
IterSource(e, c) == {o \in DOMAIN c : ~IsAbsent(c[o])}

\* The orders a HashMap may iterate a set of keys in.
Orders(S) ==
    {s \in [1..Cardinality(S) -> S] : \A i, j \in 1..Cardinality(S) : s[i] = s[j] => i = j}

\* What the callback of iter may return: Ok(true), Ok(false) or an error.
CallbackReplies == {"true", "false", "err"}

\* The loop of iter from entry i of order on, replies[i] being what the
\* callback returns at its i-th call and visited what it was handed so far.
RECURSIVE IterLoop(_, _, _, _, _)
IterLoop(i, order, replies, c, visited) ==
    IF i > Len(order)
    THEN [res |-> "Ok", msg |-> "", visited |-> visited]
    ELSE LET seen == Append(visited, [id |-> order[i], doc |-> c[order[i]]])
         IN  IF replies[i] = "err"
             THEN [res |-> "ServiceError", msg |-> "callback failed", visited |-> seen]
             ELSE IF replies[i] = "false"
             THEN [res |-> "Ok", msg |-> "", visited |-> seen]
             ELSE IterLoop(i + 1, order, replies, c, seen)

iter(order, replies) ==
    /\ adapter = "payload" /\ pc = "idle"
    /\ order \in Orders(IterSource(engine, cache))
    /\ LET out == IterLoop(1, order, replies, cache, <<>>)
       IN  lastOp' = [Ret("iter", 0, out.res, out.msg) EXCEPT
                        !.visited = out.visited,
                        !.replies = SubSeq(replies, 1, Len(out.visited))]
    /\ calls' = <<>>
    /\ pc' = "returned"
    /\ UNCHANGED <<adapter, conc, native, engine, deleted, cache, stopped, upd, hist>>

---------------------------------------------------------------------------
(* Concurrent get on one VDEPayloadStorage *)

\* get takes &self and may run on several threads at once; every operation
\* that writes a payload takes &mut self and so runs alone.
MaxThreads == 2

Threads == 1..MaxThreads

\* A thread outside get.
IdleThread == [pc |-> "idle", key |-> 0, doc |-> Absent, ret |-> Absent]

\* conc: the RwLock of the cache (readers: the threads that hold a read
\* guard, writer: the thread that holds the write guard, 0 for none) and, per
\* thread, where it is in get_payload_internal, the point it asks for, the
\* payload it has parsed and the payload it has returned.
IdleConc == [readers |-> {}, writer |-> 0, th |-> [t \in Threads |-> IdleThread]]

\* RwLock::read is granted while no thread holds the write guard.
CanRead(c) == c.writer = 0

\* RwLock::write is granted while no thread holds any guard.
CanWrite(c) == c.writer = 0 /\ c.readers = {}

\* get that writes nothing to the cache.
CacheInsertNone(c, id, doc) == c

\* cache.insert(point_id, payload.clone())
CacheInsert(c, id, doc) == [c EXCEPT ![id] = doc]

\* The state a step of thread t leaves alone besides the cache.
sequential == <<adapter, pc, engine, deleted, stopped, upd, lastOp, calls, hist, native>>

\* Thread t moves to pc p.
Goto(t, p) == conc' = [conc EXCEPT !.th[t].pc = p]

\* Thread t calls get(point_id).
get_call(t, point_id) ==
    /\ adapter = "payload" /\ pc = "idle"
    /\ conc.th[t].pc = "idle"
    /\ conc' = [conc EXCEPT !.th[t] = [IdleThread EXCEPT !.pc = "read", !.key = point_id]]
    /\ UNCHANGED <<sequential, cache>>

\* let cache = self.cache.read().unwrap()
get_read_lock(t) ==
    /\ conc.th[t].pc = "read"
    /\ CanRead(conc)
    /\ conc' = [conc EXCEPT !.readers = @ \cup {t}, !.th[t].pc = "lookup"]
    /\ UNCHANGED <<sequential, cache>>

\* cache.get(&point_id): a hit is cloned and returned.
get_lookup(t) ==
    /\ conc.th[t].pc = "lookup"
    /\ t \in conc.readers
    /\ conc' = IF ~IsAbsent(cache[conc.th[t].key])
               THEN [conc EXCEPT !.th[t].pc = "hit", !.th[t].doc = cache[conc.th[t].key]]
               ELSE [conc EXCEPT !.th[t].pc = "miss"]
    /\ UNCHANGED <<sequential, cache>>

\* The read guard is dropped, at the return of a hit or at the end of the
\* block.
get_read_unlock(t) ==
    /\ conc.th[t].pc \in {"hit", "miss"}
    /\ conc' = IF conc.th[t].pc = "hit"
               THEN [conc EXCEPT !.readers = @ \ {t}, !.th[t].pc = "done",
                                 !.th[t].ret = conc.th[t].doc]
               ELSE [conc EXCEPT !.readers = @ \ {t}, !.th[t].pc = "native"]
    /\ UNCHANGED <<sequential, cache>>

\* vde_get_vector with a payload buffer; non-zero returns the default
\* payload, zero is parsed.
get_native(t) ==
    /\ conc.th[t].pc = "native"
    /\ LET got == vde_get_payload(engine, conc.th[t].key)
       IN  conc' = IF got.rc # 0
                   THEN [conc EXCEPT !.th[t].pc = "done", !.th[t].ret = EmptyObj]
                   ELSE [conc EXCEPT !.th[t].pc = "write", !.th[t].doc = got.doc]
    /\ UNCHANGED <<sequential, cache>>

\* let mut cache = self.cache.write().unwrap()
get_write_lock(t) ==
    /\ conc.th[t].pc = "write"
    /\ CanWrite(conc)
    /\ conc' = [conc EXCEPT !.writer = t, !.th[t].pc = "insert"]
    /\ UNCHANGED <<sequential, cache>>

\* cache.insert(point_id, payload.clone())
get_insert(t) ==
    /\ conc.th[t].pc = "insert"
    /\ conc.writer = t
    /\ cache' = CacheInsert(cache, conc.th[t].key, conc.th[t].doc)
    /\ Goto(t, "inserted")
    /\ UNCHANGED sequential

\* The write guard is dropped and Ok(payload) returned.
get_write_unlock(t) ==
    /\ conc.th[t].pc = "inserted"
    /\ conc' = [conc EXCEPT !.writer = 0, !.th[t].pc = "done",
                            !.th[t].ret = conc.th[t].doc]
    /\ UNCHANGED <<sequential, cache>>

\* The caller on thread t takes the payload.
get_return(t) ==
    /\ conc.th[t].pc = "done"
    /\ conc' = [conc EXCEPT !.th[t] = IdleThread]
    /\ UNCHANGED <<sequential, cache>>

\* The collections a payload storage has written: each point without a
\* payload or with one of the payloads the callers hand in.
WrittenEngines ==
    {[EmptyEngine EXCEPT !.payloads = [o \in Offsets |-> IF o \in Points THEN f[o] ELSE NoPayload]] :
        f \in [Points -> {NoPayload} \cup {[present |-> TRUE, doc |-> d] : d \in PayloadChoices}]}

---------------------------------------------------------------------------
(* Construction *)

\* The collection an adapter finds when it is constructed: one that holds
\* nothing, or one that already holds a point, with its payload, at offset 0.
\* Init is the state after a construction that opened it.
InitialEngines ==
    {EmptyEngine,
     [EmptyEngine EXCEPT !.vectors[0] = [present |-> TRUE, data |-> Unit(Dimension)],
                         !.payloads[0] = [present |-> TRUE, doc |-> (<<"b">> :> 1)]]}

\* native: handle is the VDEEngineHandle ("none" before vde_engine_create and
\* when it returned null, "live", "destroyed"), existed whether the working
\* directory held a collection of the name when the constructor ran, bound
\* how the collection handle was obtained ("none", "opened", "created"),
\* saves the number of explicit save calls made, destroys the number of
\* vde_engine_destroy calls made on the handle.
Handle(handle, existed, bound) ==
    [handle |-> handle, existed |-> existed, bound |-> bound, saves |-> 0,
     destroys |-> 0]

Init ==
    /\ adapter \in {"storage", "index", "payload"}
    /\ pc = "idle"
    /\ engine \in InitialEngines
    /\ native = Handle("live", TRUE, "opened")
    /\ conc = IdleConc
    /\ deleted = <<>>
    /\ cache = [o \in Offsets |-> Absent]
    /\ stopped = FALSE
    /\ upd = IdleUpd
    /\ lastOp = NoOp
    /\ calls = <<>>
    /\ hist = [o \in Offsets |-> NoHist]

NextStorage ==
    \/ \E key \in Offsets, vector \in InputVectors : insert_vector(key, vector)
    \/ \E key \in Offsets : delete_vector(key)
    \/ \E key \in Offsets : get_vector(key)
    \/ \E key \in Offsets : get_vector_opt(key)
    \/ \E items \in ItemSeqs, stop0 \in BOOLEAN : update_from(items, stop0)
    \/ set_stopped
    \/ update_from_step
    \/ Return

NextIndex ==
    \/ \E queries \in QueryBatches, filter \in FilterChoices, top \in 0..MaxTop :
          search(queries, filter, top)
    \/ \E id \in Offsets, vector \in UpdateChoices : update_vector(id, vector)
    \/ save
    \/ Return

NextPayload ==
    \/ \E point_id \in Points : get(point_id)
    \/ \E point_id \in Points, payload \in PayloadChoices : overwrite(point_id, payload)
    \/ \E point_id \in Points, payload \in PayloadChoices : set(point_id, payload)
    \/ \E point_id \in Points, payload \in PayloadChoices, key \in PathChoices :
          set_by_key(point_id, payload, key)
    \/ \E point_id \in Points, key \in PathChoices : delete(point_id, key)
    \/ \E point_id \in Points : clear(point_id)
    \/ \E order \in UNION {[1..n -> Points] : n \in 0..(MaxPoint + 1)} :
          \E replies \in [1..Len(order) -> CallbackReplies] : iter(order, replies)
    \/ Return

Next == NextStorage \/ NextIndex \/ NextPayload

Spec == Init /\ [][Next]_vars

---------------------------------------------------------------------------
(* Construction and teardown *)

\* A native call that returns a handle, logged with 0 for a handle and 1 for
\* null.
HandleCall(fn, ok) == Call(fn, 0, IF ok THEN 0 ELSE 1)

DestroyCall == Call("vde_engine_destroy", 0, 0)

\* The number of vde_engine_destroy calls among the calls cs.
Destroys(cs) == Cardinality({i \in 1..Len(cs) : cs[i] = DestroyCall})

\* A constructor that takes over the tracking vector of the instance before.
NewTrackingKept == deleted

\* The tracking vector a constructor builds: Vec::new().
NewTracking == <<>>

\* The payload cache a constructor builds: HashMap::new().
NewCache == [o \in Offsets |-> Absent]

\* What a constructor returns and leaves behind: the result, the native
\* calls made, the state of the engine handle and the binding.
CtorFail(msg, cs, handle) ==
    [res |-> "ServiceError", msg |-> msg, calls |-> cs, handle |-> handle, bound |-> "none"]

CtorOk(cs, bound) ==
    [res |-> "Ok", msg |-> "", calls |-> cs, handle |-> "live", bound |-> bound]

\* vde_collection_open(engine, name): a handle when the working directory
\* holds a collection of the name, null when it does not.
vde_collection_open(existed) == HandleCall("vde_collection_open", existed)

\* VDEVectorStorage::new, with pathOk and nameOk saying whether CString::new
\* accepts the path and the name, engineOk and createOk whether
\* vde_engine_create and vde_collection_create return a handle.
storage_new(existed, pathOk, engineOk, nameOk, createOk) ==
    LET made == <<HandleCall("vde_engine_create", TRUE)>>
        tried == Append(made, vde_collection_open(existed))
    IN  IF ~pathOk THEN CtorFail("Invalid path", <<>>, "none")
        ELSE IF ~engineOk
        THEN CtorFail("Failed to create VDE engine",
                      <<HandleCall("vde_engine_create", FALSE)>>, "none")
        ELSE IF ~nameOk THEN CtorFail("Invalid name", made, "live")
        ELSE IF existed THEN CtorOk(tried, "opened")
        ELSE IF createOk
        THEN CtorOk(Append(tried, HandleCall("vde_collection_create", TRUE)), "created")
        ELSE CtorFail("Failed to create VDE collection",
                      tried \o <<HandleCall("vde_collection_create", FALSE), DestroyCall>>,
                      "destroyed")

\* VDEPayloadStorage::new
payload_new(existed, pathOk, engineOk, nameOk, createOk) ==
    LET made == <<HandleCall("vde_engine_create", TRUE)>>
        tried == Append(made, vde_collection_open(existed))
    IN  IF ~pathOk THEN CtorFail("Invalid path", <<>>, "none")
        ELSE IF ~engineOk
        THEN CtorFail("Failed to create VDE engine",
                      <<HandleCall("vde_engine_create", FALSE)>>, "none")
        ELSE IF ~nameOk THEN CtorFail("Invalid name", made, "live")
        ELSE IF existed THEN CtorOk(tried, "opened")
        ELSE IF createOk
        THEN CtorOk(Append(tried, HandleCall("vde_collection_create", TRUE)), "created")
        ELSE CtorFail("Failed to create VDE collection",
                      tried \o <<HandleCall("vde_collection_create", FALSE), DestroyCall>>,
                      "destroyed")

\* VDEVectorIndex::new
index_new(existed, pathOk, engineOk, nameOk, createOk) ==
    LET made == <<HandleCall("vde_engine_create", TRUE)>>
    IN  IF ~pathOk THEN CtorFail("Invalid path", <<>>, "none")
        ELSE IF ~engineOk
        THEN CtorFail("Failed to create VDE engine",
                      <<HandleCall("vde_engine_create", FALSE)>>, "none")
        ELSE IF ~nameOk THEN CtorFail("Invalid name", made, "live")
        ELSE IF createOk
        THEN CtorOk(Append(made, HandleCall("vde_collection_create", TRUE)), "created")
        ELSE CtorFail("Failed to create VDE collection",
                      made \o <<HandleCall("vde_collection_create", FALSE), DestroyCall>>,
                      "destroyed")

\* VDEVectorIndex::open
index_open(existed, pathOk, engineOk, nameOk) ==
    LET made == <<HandleCall("vde_engine_create", TRUE)>>
        tried == Append(made, vde_collection_open(existed))
    IN  IF ~pathOk THEN CtorFail("Invalid path", <<>>, "none")
        ELSE IF ~engineOk
        THEN CtorFail("Failed to create VDE engine",
                      <<HandleCall("vde_engine_create", FALSE)>>, "none")
        ELSE IF ~nameOk THEN CtorFail("Invalid name", made, "live")
        ELSE IF existed THEN CtorOk(tried, "opened")
        ELSE CtorFail("Failed to open VDE collection", Append(tried, DestroyCall), "destroyed")

\* The constructor has returned: Err leaves no adapter, Ok leaves one bound to
\* the collection, with a handle, a tracking vector and a cache of its own.
\* What a collection created over an existing name holds is the engine's
\* affair: either what was there or nothing.
Constructed(op, out) ==
    /\ lastOp' = Ret(op, 0, out.res, out.msg)
    /\ calls' = out.calls
    /\ native' = [Handle(out.handle, native.existed, out.bound)
                     EXCEPT !.destroys = Destroys(out.calls)]
    /\ pc' = IF out.res = "Ok" THEN "returned" ELSE "failed"
    /\ engine' \in IF out.bound = "created" THEN {engine, EmptyEngine} ELSE {engine}
    /\ deleted' = IF out.res = "Ok" THEN NewTracking ELSE deleted
    /\ cache' = NewCache
    /\ UNCHANGED <<adapter, conc, stopped, upd, hist>>

\* A constructor runs where there is no adapter: at the start, or after the
\* adapter before it was dropped, over the collection that one has left.
new(pathOk, engineOk, nameOk, createOk) ==
    /\ pc \in {"unbuilt", "dropped"}
    /\ Constructed("new",
           IF adapter = "storage"
           THEN storage_new(native.existed, pathOk, engineOk, nameOk, createOk)
           ELSE IF adapter = "payload"
           THEN payload_new(native.existed, pathOk, engineOk, nameOk, createOk)
           ELSE index_new(native.existed, pathOk, engineOk, nameOk, createOk))

open(pathOk, engineOk, nameOk) ==
    /\ pc \in {"unbuilt", "dropped"} /\ adapter = "index"
    /\ Constructed("open", index_open(native.existed, pathOk, engineOk, nameOk))

\* The persistence call of an adapter's Drop.
PersistCall(kind) == IF kind = "index" THEN "vde_save_snapshot" ELSE "vde_flush"

\* A Drop that gives up when its persistence call fails.
DropOutcomeEarlyReturn(kind, rc) ==
    IF rc # 0
    THEN [calls |-> <<Call(PersistCall(kind), 0, rc)>>, handle |-> "live"]
    ELSE [calls |-> <<Call(PersistCall(kind), 0, rc), DestroyCall>>, handle |-> "destroyed"]

\* A Drop that destroys the engine handle a second time.
DropOutcomeDestroysTwice(kind, rc) ==
    [calls |-> <<Call(PersistCall(kind), 0, rc), DestroyCall, DestroyCall>>,
     handle |-> "destroyed"]

\* Drop of an adapter of the kind, the persistence call returning rc: the
\* code is ignored, and the engine handle, which is never null and whose
\* lock is never poisoned, is destroyed.
DropOutcome(kind, rc) ==
    [calls |-> <<Call(PersistCall(kind), 0, rc), DestroyCall>>, handle |-> "destroyed"]

drop ==
    /\ pc = "idle"
    /\ \E rc \in RetCodes :
         LET out == DropOutcome(adapter, rc)
         IN  /\ calls' = out.calls
             /\ native' = [native EXCEPT !.handle = out.handle,
                                          !.destroys = @ + Destroys(out.calls),
                                          !.existed = TRUE]
    /\ lastOp' = Ret("drop", 0, "Ok", "")
    /\ pc' = "dropped"
    /\ UNCHANGED <<adapter, conc, engine, deleted, cache, stopped, upd, hist>>

\* Before construction: the working directory holds a collection of the name,
\* with or without a point in it, or none.
InitLifecycle ==
    /\ adapter \in {"storage", "index", "payload"}
    /\ pc = "unbuilt"
    /\ \E existed \in BOOLEAN :
         /\ native = Handle("none", existed, "none")
         /\ engine \in IF existed THEN InitialEngines ELSE {EmptyEngine}
    /\ conc = IdleConc
    /\ deleted = <<>>
    /\ cache = [o \in Offsets |-> Absent]
    /\ stopped = FALSE
    /\ upd = IdleUpd
    /\ lastOp = NoOp
    /\ calls = <<>>
    /\ hist = [o \in Offsets |-> NoHist]

\* Construction, the writes that change what the collection holds, explicit
\* saves, and teardown.
NextLifecycle ==
    \/ \E pathOk, engineOk, nameOk, createOk \in BOOLEAN :
          new(pathOk, engineOk, nameOk, createOk)
    \/ \E pathOk, engineOk, nameOk \in BOOLEAN : open(pathOk, engineOk, nameOk)
    \/ \E key \in Offsets, vector \in GoodVectors : insert_vector(key, vector)
    \/ \E key \in Offsets : delete_vector(key)
    \/ \E id \in Offsets, vector \in UpdateChoices : update_vector(id, vector)
    \/ \E point_id \in Points, payload \in PayloadChoices : overwrite(point_id, payload)
    \/ save
    \/ drop
    \/ Return

SpecLifecycle == InitLifecycle /\ [][NextLifecycle]_vars

\* The life of a vector storage.
InitStorage == Init /\ adapter = "storage"

SpecStorage == InitStorage /\ [][NextStorage]_vars

\* The life of a vector index.
InitIndex == Init /\ adapter = "index"

SpecIndex == InitIndex /\ [][NextIndex]_vars

\* The life of a payload storage.
InitPayload == Init /\ adapter = "payload"

SpecPayload == InitPayload /\ [][NextPayload]_vars

\* Threads calling get on a payload storage whose cache is cold, over a
\* collection written before.
InitConcurrentGet ==
    /\ adapter = "payload"
    /\ pc = "idle"
    /\ engine \in WrittenEngines
    /\ native = Handle("live", TRUE, "opened")
    /\ conc = IdleConc
    /\ deleted = <<>>
    /\ cache = NewCache
    /\ stopped = FALSE
    /\ upd = IdleUpd
    /\ lastOp = NoOp
    /\ calls = <<>>
    /\ hist = [o \in Offsets |-> NoHist]

NextConcurrentGet ==
    \/ \E t \in Threads, point_id \in Points : get_call(t, point_id)
    \/ \E t \in Threads : get_read_lock(t)
    \/ \E t \in Threads : get_lookup(t)
    \/ \E t \in Threads : get_read_unlock(t)
    \/ \E t \in Threads : get_native(t)
    \/ \E t \in Threads : get_write_lock(t)
    \/ \E t \in Threads : get_insert(t)
    \/ \E t \in Threads : get_write_unlock(t)
    \/ \E t \in Threads : get_return(t)

SpecConcurrentGet == InitConcurrentGet /\ [][NextConcurrentGet]_vars

---------------------------------------------------------------------------
(* Properties of VDEVectorStorage *)

Last(q) == q[Len(q)]

\* A result is waiting for the caller.
Returned(op) == pc = "returned" /\ lastOp.op = op

\* C1: while the last successful operation on an offset is insert_vector(o, v),
\* get_vector(o) returns exactly v (a later insert at o replaces the vector).
C1_InsertThenGet ==
    (Returned("get_vector") /\ hist[lastOp.key].op = "insert")
        => lastOp.vec = hist[lastOp.key].vec

\* get_vector has returned the vector inserted at offset 1.
C1_Witness ==
    /\ Returned("get_vector")
    /\ lastOp.key = 1
    /\ hist[1] = [op |-> "insert", vec |-> Unit(Dimension)]
    /\ lastOp.vec = Unit(Dimension)

\* C2: a successful delete_vector(o) returns true when the last successful
\* operation on o was an insert, and false when it was a delete.
C2_DeleteOnce ==
    [][(pc = "idle" /\ lastOp'.op = "delete_vector" /\ lastOp'.res = "Ok")
          => /\ hist[lastOp'.key].op = "insert" => lastOp'.flag = TRUE
             /\ hist[lastOp'.key].op = "delete" => lastOp'.flag = FALSE]_vars

\* A delete of an offset already deleted has returned false.
C2_Witness ==
    /\ Returned("delete_vector")
    /\ lastOp.res = "Ok"
    /\ lastOp.flag = FALSE
    /\ is_deleted_vector(lastOp.key)

\* C3: deleted_vector_bitslice() has bit o set exactly when is_deleted_vector(o),
\* for every offset below the tracking length, and is not empty once the
\* tracking vector is not.
C3_BitsliceViewsTracking ==
    /\ \A o \in 0..(Len(deleted) - 1) :
         (o < Len(deleted_vector_bitslice) /\ deleted_vector_bitslice[o + 1])
            <=> is_deleted_vector(o)
    /\ Len(deleted) > 0 => Len(deleted_vector_bitslice) > 0

\* C5: insert_vector with a dense vector of another length than the dimension
\* returns an error, makes no native call and leaves the engine and the
\* tracking vector as they were.
C5_InsertMismatchNoNativeCall ==
    [][(pc = "idle" /\ lastOp'.op = "insert_vector"
           /\ lastOp'.arg.kind = "Dense" /\ Len(lastOp'.arg.data) # Dimension)
          => /\ lastOp'.res = "ServiceError"
             /\ calls' = <<>>
             /\ engine' = engine
             /\ deleted' = deleted]_vars

\* insert_vector has refused a vector that is too long, on a storage that
\* already tracks offsets.
C5_Witness ==
    /\ Returned("insert_vector")
    /\ lastOp.arg.kind = "Dense"
    /\ Len(lastOp.arg.data) > Dimension
    /\ lastOp.res = "ServiceError"
    /\ deleted # <<>>

\* The items of an update_from sequence are all of the collection dimension.
AllMatching(items) ==
    \A i \in 1..Len(items) :
        items[i].vector.kind = "Dense" /\ Len(items[i].vector.data) = Dimension

\* How many items are marked deleted.
MarkedDeleted(items) == Cardinality({i \in 1..Len(items) : items[i].deleted})

\* C8: update_from on a storage whose tracking vector is still empty, over n
\* dimension-matching items of which k are marked deleted, with the flag
\* never set, returns 0..n and leaves deleted_vector_count() = k; the only
\* other way out is the error of a native call that returned non-zero.
C8_UpdateFromRangeAndCount ==
    (Returned("update_from") /\ upd.fresh /\ ~stopped /\ AllMatching(upd.items))
        => \/ /\ lastOp.res = "Ok"
              /\ lastOp.range = <<0, Len(upd.items)>>
              /\ deleted_vector_count = MarkedDeleted(upd.items)
              /\ \A i \in 1..Len(calls) : calls[i].rc = 0
           \/ /\ lastOp.res = "ServiceError"
              /\ calls # <<>>
              /\ Last(calls).rc # 0

\* update_from has returned 0..3 for three items, the second one deleted.
C8_Witness ==
    /\ Returned("update_from")
    /\ upd.fresh /\ ~stopped /\ AllMatching(upd.items)
    /\ lastOp.res = "Ok"
    /\ Len(upd.items) = 3
    /\ upd.items[2].deleted /\ MarkedDeleted(upd.items) = 1
    /\ lastOp.range = <<0, 3>>
    /\ deleted_vector_count = 1

\* Item j (from 0) of the running update_from is in place in the engine and in
\* the tracking vector.
ItemApplied(j) ==
    LET item == upd.items[j + 1]
    IN  /\ j < Len(deleted)
        /\ deleted[j + 1] = item.deleted
        /\ calls[j + 1].id = j
        /\ calls[j + 1].rc = 0
        /\ IF item.deleted
           THEN /\ calls[j + 1].fn = "vde_delete_vector"
                /\ ~engine.vectors[j].present
           ELSE /\ calls[j + 1].fn = "vde_upsert_vector"
                /\ engine.vectors[j].present
                /\ engine.vectors[j].data = item.vector.data

---------------------------------------------------------------------------
(* Properties of VDEVectorIndex *)

\* update_vector is called with a vector for offset o, which this index has
\* never updated and the collection does not hold.
UpdatesMissing(o) ==
    /\ pc = "idle"
    /\ lastOp'.op = "update_vector"
    /\ lastOp'.key = o
    /\ lastOp'.arg.kind # "None"
    /\ ~engine.vectors[o].present
    /\ hist[o].op = "none"

ValidQuery(q) == q.kind = "Dense" /\ Len(q.data) = Dimension

\* C6: a search whose batch holds a dimension-mismatched or non-dense query
\* fails without any native search for any query of the batch.
C6_InvalidBatchNoNativeSearch ==
    (Returned("search") /\ \E i \in 1..Len(lastOp.queries) : ~ValidQuery(lastOp.queries[i]))
        => lastOp.res = "ServiceError" /\ calls = <<>>

\* C7: update_vector with a dense vector of another length than the dimension
\* fails without a native upsert.
C7_UpdateMismatchNoNativeCall ==
    (Returned("update_vector") /\ lastOp.arg.kind = "Dense"
        /\ Len(lastOp.arg.data) # Dimension)
        => lastOp.res = "ServiceError" /\ calls = <<>>

---------------------------------------------------------------------------
(* Properties of VDEPayloadStorage *)

\* The step is a successful call of op.
Succeeds(op) == pc = "idle" /\ lastOp'.op = op /\ lastOp'.res = "Ok"

\* Every leaf of doc outside the paths in gone is a leaf of after, unchanged.
Preserved(doc, after, gone) ==
    \A r \in DOMAIN doc :
        (\A q \in gone : ~Conflict(q, r)) => (r \in DOMAIN after /\ after[r] = doc[r])

\* C10: after a successful set_by_key(o, p, path), get(o) holds at the path the
\* members of p, with p's values, and the members the object at the path had
\* that p does not replace; after a successful delete(o, path), get(o) has no
\* value at the path, every other leaf of the document is as before, and the
\* list returned is the value that was at the path just before the call (no
\* value when there was none).
C10_SetByKeyThenDelete ==
    [][LET o == lastOp'.key
           path == lastOp'.path
           p == lastOp'.payload
           before == payload_value(engine, cache, o)
           after == payload_value(engine', cache', o)
       IN  /\ Succeeds("set_by_key")
                => /\ \A q \in DOMAIN p :
                        (path \o q) \in DOMAIN after /\ after[path \o q] = p[q]
                   /\ \A r \in DOMAIN before :
                        (IsPrefix(path, r) /\ r # path
                            /\ \A q \in DOMAIN p : ~Conflict(path \o q, r))
                          => (r \in DOMAIN after /\ after[r] = before[r])
                   /\ Preserved(before, after, {path})
           /\ Succeeds("delete")
                => /\ IsAbsent(ValueAt(after, path))
                   /\ \A r \in DOMAIN before :
                        ~IsPrefix(path, r) => (r \in DOMAIN after /\ after[r] = before[r])
                   /\ lastOp'.vals = IF IsAbsent(ValueAt(before, path))
                                     THEN <<>>
                                     ELSE <<ValueAt(before, path)>>]_vars

\* delete has removed a.b = 1, which a set_by_key at a had merged in beside
\* a.a = 2, and a.a is still there.
C10_Witness ==
    /\ Returned("delete")
    /\ lastOp.res = "Ok"
    /\ lastOp.path = <<"a", "b">>
    /\ lastOp.vals = <<(<<>> :> 1)>>
    /\ payload_value(engine, cache, lastOp.key) = (<<"a", "a">> :> 2)
    /\ ~IsAbsent(cache[lastOp.key])

\* C11: after a successful set(o, p), get(o) returns the prior document with p
\* merged over it: every member of p is there with p's value, every member
\* of the prior document that p does not replace keeps its value, nothing
\* else is there, and this whole document is what the engine holds for o.
C11_SetMergesOverPrior ==
    [][LET o == lastOp'.key
           p == lastOp'.payload
           before == payload_value(engine, cache, o)
           after == payload_value(engine', cache', o)
       IN  Succeeds("set")
             => /\ \A q \in DOMAIN p : q \in DOMAIN after /\ after[q] = p[q]
                /\ Preserved(before, after, DOMAIN p)
                /\ DOMAIN after \subseteq (DOMAIN p \cup DOMAIN before)
                /\ engine'.payloads[o] = [present |-> TRUE, doc |-> after]]_vars

\* set has merged a = 1 over a document that held b = 1 only, and the engine
\* holds both members.
C11_Witness ==
    /\ Returned("set")
    /\ lastOp.res = "Ok"
    /\ lastOp.payload = (<<"a">> :> 1)
    /\ engine.payloads[lastOp.key].doc = (<<"a">> :> 1) @@ (<<"b">> :> 1)
    /\ payload_value(engine, cache, lastOp.key) = engine.payloads[lastOp.key].doc

\* C12: a successful clear(o) returns the prior document when the engine holds
\* a document for o, and no document (None) when nothing was ever stored at o.
C12_ClearReturnsPriorOrNone ==
    [][LET o == lastOp'.key
       IN  Succeeds("clear")
             => /\ lastOp'.some <=> engine.payloads[o].present
                /\ engine.payloads[o].present
                      => lastOp'.doc = payload_value(engine, cache, o)]_vars

\* C13: when clear(o) has returned successfully the engine holds the empty
\* document for o and the cache has no entry for o, so that iter does not
\* walk o and get(o) returns the empty document.
C13_ClearEmptiesAndEvicts ==
    (Returned("clear") /\ lastOp.res = "Ok")
        => /\ engine.payloads[lastOp.key] = [present |-> TRUE, doc |-> EmptyObj]
           /\ IsAbsent(cache[lastOp.key])
           /\ lastOp.key \notin IterSource(engine, cache)
           /\ payload_value(engine, cache, lastOp.key) = EmptyObj

\* clear has returned a document with members, which had been in the cache.
C13_Witness ==
    /\ Returned("clear")
    /\ lastOp.res = "Ok"
    /\ lastOp.some
    /\ lastOp.doc = (<<"a">> :> 2) @@ (<<"b">> :> 1)
    /\ calls = <<Call("vde_upsert_vector", lastOp.key, 0)>>
    /\ IsAbsent(cache[lastOp.key])

\* C14: iter hands the callback offsets of the cache only, each at most once
\* and with the cached document, makes no native call, goes on after a
\* callback only when it returned true, and stops short of the whole cache
\* only at a callback that did not; a document the engine holds that is not
\* in the cache is not visited.
C14_IterWalksCacheOnly ==
    Returned("iter")
        => LET seen == lastOp.visited
               n == Len(seen)
           IN  /\ calls = <<>>
               /\ \A i \in 1..n :
                     /\ ~IsAbsent(cache[seen[i].id])
                     /\ seen[i].doc = cache[seen[i].id]
               /\ \A i, j \in 1..n : seen[i].id = seen[j].id => i = j
               /\ \A i \in 1..(n - 1) : lastOp.replies[i] = "true"
               /\ n < Cardinality({o \in DOMAIN cache : ~IsAbsent(cache[o])})
                     => (n >= 1 /\ lastOp.replies[n] # "true")
               /\ (n >= 1 /\ lastOp.replies[n] = "false") => lastOp.res = "Ok"
               /\ \A o \in DOMAIN cache :
                     (engine.payloads[o].present /\ IsAbsent(cache[o]))
                        => \A i \in 1..n : seen[i].id # o

\* iter has walked the one cached offset and passed over offset 0, whose
\* document the engine holds but this instance never read.
C14_Witness ==
    /\ Returned("iter")
    /\ lastOp.res = "Ok"
    /\ engine.payloads[0].present
    /\ IsAbsent(cache[0])
    /\ ~IsAbsent(cache[1])
    /\ lastOp.visited = <<[id |-> 1, doc |-> cache[1]]>>
    /\ lastOp.replies = <<"true">>

\* C15: get(o), when o is not cached and the native get returns a non-zero
\* code, returns the empty document as a success and adds no cache entry.
C15_GetMissIsEmptyAndUncached ==
    [][(/\ pc = "idle"
        /\ lastOp'.op = "get"
        /\ IsAbsent(cache[lastOp'.key])
        /\ vde_get_payload(engine, lastOp'.key).rc # 0)
          => /\ lastOp'.res = "Ok"
             /\ lastOp'.doc = EmptyObj
             /\ IsAbsent(cache'[lastOp'.key])
             /\ calls' = <<Call("vde_get_vector", lastOp'.key,
                                vde_get_payload(engine, lastOp'.key).rc)>>]_vars

\* get has returned the empty document for an offset the engine holds nothing
\* for, after one native get that failed, and the offset is not cached.
C15_Witness ==
    /\ Returned("get")
    /\ lastOp.res = "Ok"
    /\ lastOp.doc = EmptyObj
    /\ ~engine.payloads[lastOp.key].present
    /\ calls = <<Call("vde_get_vector", lastOp.key, 1)>>
    /\ IsAbsent(cache[lastOp.key])

---------------------------------------------------------------------------
(* Reads of VDEVectorStorage *)

\* The one native call of the last operation returned a non-zero code.
NativeMiss == Len(calls) = 1 /\ calls[1].rc # 0

---------------------------------------------------------------------------
(* Results of VDEVectorIndex.search *)

\* C20: a successful search returns one list per query, in query order; list
\* i has the length the engine reported for query i, at most top, and holds
\* the entries the engine wrote, in the engine's order, offsets and scores
\* unchanged.
C20_SearchListsAreEngineAnswers ==
    (Returned("search") /\ lastOp.res = "Ok")
        => /\ Len(lastOp.lists) = Len(lastOp.queries)
           /\ \A i \in 1..Len(lastOp.queries) :
                 LET hits == lastOp.answers[i].hits
                 IN  /\ Len(lastOp.lists[i]) = Len(hits)
                     /\ Len(hits) <= lastOp.top
                     /\ \A j \in 1..Len(hits) :
                           /\ lastOp.lists[i][j].idx = hits[j].offset
                           /\ lastOp.lists[i][j].score = hits[j].score

\* A search of two queries with top = 2 has returned the two entries the
\* engine wrote for the first, lower score first, and the one it wrote for
\* the second.
C20_Witness ==
    /\ Returned("search")
    /\ lastOp.res = "Ok"
    /\ lastOp.top = 2
    /\ Len(lastOp.queries) = 2
    /\ lastOp.lists = << <<[idx |-> 1, score |-> 1], [idx |-> 0, score |-> 2]>>,
                         <<[idx |-> 0, score |-> 2]>> >>

---------------------------------------------------------------------------
(* Properties of construction and teardown *)

\* C17: when a constructor returns an error after vde_engine_create returned
\* a handle, vde_engine_destroy has been called on the handle: no engine
\* handle is left alive without an adapter that owns it.
C17_FailedConstructorDestroysEngine ==
    pc = "failed"
        => /\ native.handle # "live"
           /\ (\E i \in 1..Len(calls) : calls[i].fn = "vde_engine_create" /\ calls[i].rc = 0)
                 => calls[Len(calls)] = DestroyCall

\* C19: a constructor new that runs where a collection of the name exists
\* binds the adapter to that collection, and whenever it calls
\* vde_collection_create it has called vde_collection_open before and got
\* null.
C19_OpenBeforeCreate ==
    (pc \in {"returned", "failed"} /\ lastOp.op = "new" /\ native.existed)
        => /\ \A i \in 1..Len(calls) :
                 calls[i].fn = "vde_collection_create"
                    => \E j \in 1..(i - 1) :
                          calls[j].fn = "vde_collection_open" /\ calls[j].rc # 0
           /\ lastOp.res = "Ok" => native.bound = "opened"

\* C18: at teardown the persistence call of the adapter (vde_save_snapshot
\* for the index, vde_flush for the storages) is made once, vde_engine_destroy
\* right after it and once, whatever the persistence call returned and however
\* many explicit saves came before.
C18_DropPersistsThenDestroys ==
    pc = "dropped"
        => /\ Len(calls) = 2
           /\ calls[1].fn = PersistCall(adapter)
           /\ calls[2] = DestroyCall
           /\ native.handle = "destroyed"

\* An index on which save was called twice has been dropped: its last
\* snapshot failed and the engine was destroyed all the same.
C18_Witness ==
    /\ pc = "dropped"
    /\ adapter = "index"
    /\ native.saves = 2
    /\ calls = <<Call("vde_save_snapshot", 0, 1), DestroyCall>>
    /\ native.handle = "destroyed"

---------------------------------------------------------------------------
(* Native calls of VDEVectorIndex *)

\* C21: in the index adapter a native call that returns a non-zero code is the
\* last call the operation makes (it is not retried, and nothing follows
\* it), the operation returns a service error that carries the code, and a
\* search returns no result list, whatever the queries before had been
\* answered with.
C21_NativeFailureIsServiceError ==
    (Returned("search") \/ Returned("update_vector") \/ Returned("save"))
        => /\ \A i \in 1..Len(calls) :
                 calls[i].rc # 0
                    => /\ i = Len(calls)
                       /\ lastOp.res = "ServiceError"
                       /\ lastOp.code = calls[i].rc
                       /\ lastOp.lists = <<>>
           /\ \A i, j \in 1..Len(calls) : calls[i].id = calls[j].id => i = j

\* A search whose first query the engine answered and whose second it failed
\* has returned a service error and no list.
C21_Witness ==
    /\ Returned("search")
    /\ Len(calls) = 2
    /\ calls[1].rc = 0
    /\ calls[2].rc = 1
    /\ lastOp.res = "ServiceError"
    /\ lastOp.code = 1
    /\ lastOp.lists = <<>>

\* C22 as stated: update_vector(o, vector) makes exactly one native call, an
\* upsert at o when a vector is given and a delete of o when none is.
C22_UpdateIsOneNativeCall ==
    Returned("update_vector")
        => /\ Len(calls) = 1
           /\ calls[1].id = lastOp.key
           /\ calls[1].fn = IF lastOp.arg.kind = "None"
                            THEN "vde_delete_vector" ELSE "vde_upsert_vector"

\* C22, amended: update_vector(o, vector) makes one native call, an upsert at
\* o that carries the vector and no payload, when a dense vector is given;
\* one native call, a delete of o, when no vector is given; and no native call
\* at all when the vector given is not dense.  It never makes both calls and
\* never touches another offset.
C22_UpdateIsOneNativeCallIfDense ==
    [][(pc = "idle" /\ lastOp'.op = "update_vector")
         => LET o == lastOp'.key
                v == lastOp'.arg
            IN  /\ v.kind = "None"
                      => (Len(calls') = 1 /\ calls'[1].fn = "vde_delete_vector"
                            /\ calls'[1].id = o)
                /\ v.kind = "Dense"
                      => /\ Len(calls') = 1 /\ calls'[1].fn = "vde_upsert_vector"
                         /\ calls'[1].id = o
                         /\ engine'.payloads = engine.payloads
                         /\ lastOp'.res = "Ok"
                               => engine'.vectors[o] = [present |-> TRUE, data |-> v.data]
                /\ v.kind \notin {"None", "Dense"}
                      => (calls' = <<>> /\ lastOp'.res = "ServiceError" /\ engine' = engine)
                /\ \A p \in Offsets \ {o} :
                      /\ engine'.vectors[p] = engine.vectors[p]
                      /\ engine'.payloads[p] = engine.payloads[p]]_vars

\* update_vector has replaced the vector at offset 0 by one upsert, and the
\* payload the collection holds there is still in place.
C22_Witness ==
    /\ Returned("update_vector")
    /\ lastOp.res = "Ok"
    /\ lastOp.key = 0
    /\ lastOp.arg = Dense(Unit(Dimension - 1))
    /\ calls = <<Call("vde_upsert_vector", 0, 0)>>
    /\ engine.vectors[0].data = Unit(Dimension - 1)
    /\ engine.payloads[0].present

---------------------------------------------------------------------------
(* Deletion tracking of VDEVectorStorage *)

\* C23: the tracking vector has a slot for every offset that an insert (or a
\* delete) has ever succeeded on, so its length is at least the highest such
\* offset plus one, and no step makes it shorter.
C23_TrackingCoversInserted ==
    /\ [](\A o \in Offsets : hist[o].op # "none" => Len(deleted) >= o + 1)
    /\ [][Len(deleted') >= Len(deleted)]_vars

\* The highest offset has been inserted into a storage that has seen nothing
\* else, and the tracking vector reaches up to it.
C23_Witness ==
    /\ Returned("insert_vector")
    /\ lastOp.res = "Ok"
    /\ lastOp.key = MaxOffset
    /\ \A o \in Offsets \ {MaxOffset} : hist[o].op = "none"
    /\ Len(deleted) = MaxOffset + 1

\* C24: a successful insert_vector(o, v) on an offset whose slot is marked
\* deleted clears the mark: is_deleted_vector(o) is false afterwards, the
\* count of deleted vectors is one lower, and a delete_vector(o) issued next
\* on a succeeding engine returns true.
C24_InsertRevives ==
    [][\A o \in Offsets :
         (/\ pc = "idle"
          /\ lastOp'.op = "insert_vector" /\ lastOp'.res = "Ok" /\ lastOp'.key = o
          /\ is_deleted_vector(o))
            => /\ ~is_deleted_vector(o)'
               /\ deleted_vector_count' = deleted_vector_count - 1
               /\ DeleteOutcome(engine', deleted', hist', o, 0).ret.flag]_vars

\* An offset that had been deleted has been inserted again and is live.
C24_Witness ==
    /\ Returned("insert_vector")
    /\ lastOp.res = "Ok"
    /\ lastOp.marked
    /\ ~is_deleted_vector(lastOp.key)
    /\ \E o \in Offsets \ {lastOp.key} : is_deleted_vector(o)

\* C25 as stated: insert_vector reports a vector that is not dense with the
\* error kind UnsupportedVectorKind and a dense vector of the wrong length
\* with the error kind DimensionMismatch, neither of them the ServiceError of
\* a failed native call.
C25_ValidationErrorsHaveOwnKind ==
    Returned("insert_vector")
        => /\ lastOp.arg.kind # "Dense" => lastOp.res = "UnsupportedVectorKind"
           /\ (lastOp.arg.kind = "Dense" /\ Len(lastOp.arg.data) # Dimension)
                 => lastOp.res = "DimensionMismatch"

\* C28: an insert_vector or delete_vector whose native call returns a
\* non-zero code returns an error and leaves the tracking vector as it was,
\* in length and in every slot.
C28_NativeFailureKeepsTracking ==
    [][(/\ pc = "idle"
        /\ lastOp'.op \in {"insert_vector", "delete_vector"}
        /\ Len(calls') = 1
        /\ calls'[1].rc # 0)
          => (lastOp'.res = "ServiceError" /\ deleted' = deleted)]_vars

\* The native delete of a live, inserted offset has failed; the offset is
\* still not marked deleted.
C28_Witness ==
    /\ Returned("delete_vector")
    /\ lastOp.res = "ServiceError"
    /\ calls = <<Call("vde_delete_vector", lastOp.key, 1)>>
    /\ hist[lastOp.key].op = "insert"
    /\ Len(deleted) > lastOp.key
    /\ ~is_deleted_vector(lastOp.key)

---------------------------------------------------------------------------
(* Cache coherence of VDEPayloadStorage *)

\* Every payload the cache holds is the document the engine stores for that
\* offset.
CacheCoherent ==
    \A id \in Points :
        ~IsAbsent(cache[id])
            => (engine.payloads[id].present /\ engine.payloads[id].doc = cache[id])

\* The operations that write a payload.
PayloadWrites == {"overwrite", "set", "set_by_key", "delete", "clear"}

\* C27 as stated: every cache entry equals the engine's document for its
\* offset, and a write operation whose native upsert returns non-zero returns
\* an error and leaves the cache as it was before the operation.
C27_CoherentAndFailedWriteKeepsCache ==
    /\ []CacheCoherent
    /\ [][(/\ pc = "idle"
            /\ lastOp'.op \in PayloadWrites
            /\ calls' # <<>>
            /\ Last(calls').fn = "vde_upsert_vector"
            /\ Last(calls').rc # 0)
              => (lastOp'.res = "ServiceError" /\ cache' = cache)]_vars

\* C27, amended: every cache entry equals the engine's document for its
\* offset, and a write operation whose native upsert returns non-zero returns
\* an error and adds nothing of what it was to write to the cache: the cache
\* is left as the read that precedes the upsert left it (for overwrite, which
\* reads nothing, as it was before the operation).
C27_CoherentAndFailedWriteCachesNothing ==
    /\ []CacheCoherent
    /\ [][(/\ pc = "idle"
            /\ lastOp'.op \in PayloadWrites
            /\ calls' # <<>>
            /\ Last(calls').fn = "vde_upsert_vector"
            /\ Last(calls').rc # 0)
              => /\ lastOp'.res = "ServiceError"
                 /\ engine' = engine
                 /\ cache' = IF lastOp'.op = "overwrite" THEN cache
                             ELSE GetOutcome(engine, cache, lastOp'.key).cache]_vars

\* The upsert of a set on an offset that was not cached has failed after the
\* read had fetched the engine's document: the cache holds that document and
\* not the merged one.
C27_Witness ==
    /\ Returned("set")
    /\ lastOp.res = "ServiceError"
    /\ Len(calls) = 2
    /\ calls[1].rc = 0
    /\ ~IsAbsent(cache[lastOp.key])
    /\ cache[lastOp.key] = engine.payloads[lastOp.key].doc
    /\ cache[lastOp.key] # SetDocument(cache[lastOp.key], lastOp.payload)

---------------------------------------------------------------------------
(* The engine handle and the tracking vector over the life of an adapter *)

\* C29: over the life of one adapter instance, from its constructor to its
\* Drop, vde_engine_destroy is called at most once on its engine handle; the
\* destroy is the last native call of the instance, and the only step that
\* follows it is the construction of another instance, with a handle of its
\* own.
C29_DestroyOnceAndLast ==
    /\ [](/\ native.destroys <= 1
          /\ native.handle = "destroyed"
                => /\ pc \in {"failed", "dropped"}
                   /\ native.destroys = 1
                   /\ Destroys(calls) = 1
                   /\ Last(calls) = DestroyCall)
    /\ [][native.handle = "destroyed"
            => (pc = "dropped" /\ lastOp'.op \in {"new", "open"})]_vars

\* An adapter that was bound to an existing collection and used has been
\* dropped: its handle was destroyed once, by the last call made.
C29_Witness ==
    /\ pc = "dropped"
    /\ native.bound = "opened"
    /\ native.handle = "destroyed"
    /\ native.destroys = 1
    /\ Last(calls) = DestroyCall
    /\ \E o \in Offsets : hist[o].op # "none"

\* C30: a vector storage that its constructor has just returned has an empty
\* tracking vector, so that is_deleted_vector is false for every offset and
\* deleted_vector_count is 0, whatever was deleted from the collection
\* before; and a slot becomes marked only by a successful delete_vector of
\* this instance on that offset.
C30_NewStorageTracksNothing ==
    /\ []((Returned("new") /\ adapter = "storage" /\ lastOp.res = "Ok")
            => /\ deleted = <<>>
               /\ \A o \in Offsets : ~is_deleted_vector(o)
               /\ deleted_vector_count = 0)
    /\ [][\A o \in Offsets :
            (adapter = "storage" /\ ~is_deleted_vector(o) /\ is_deleted_vector(o)')
                => /\ lastOp'.op = "delete_vector"
                   /\ lastOp'.key = o
                   /\ lastOp'.res = "Ok"]_vars

\* A storage has been constructed by opening the collection from which an
\* earlier instance had deleted an offset: the engine holds no vector there
\* and the new instance does not report the offset as deleted.
C30_Witness ==
    /\ Returned("new")
    /\ adapter = "storage"
    /\ lastOp.res = "Ok"
    /\ native.bound = "opened"
    /\ \E o \in Offsets :
          /\ hist[o].op = "delete"
          /\ ~engine.vectors[o].present
          /\ ~is_deleted_vector(o)
    /\ deleted_vector_count = 0

---------------------------------------------------------------------------
(* Concurrent get *)

\* The payload get returns for a point when nothing writes: the engine's
\* document, or the default payload when the engine has none.
EngineDocument(id) ==
    IF engine.payloads[id].present THEN engine.payloads[id].doc ELSE EmptyObj

\* C26: with threads calling get at the same time on one payload storage, for
\* the same point or not, the write guard of the cache is never held together
\* with another guard, the cache is read only by a thread that holds a read
\* guard and changed only by the thread that holds the write guard, every
\* call returns the engine's document for its point, the cache holds nothing
\* but engine documents, and a point whose fetch has succeeded and returned
\* is cached with exactly that document.
C26_ConcurrentGetsAgree ==
    /\ [](/\ conc.writer # 0 => conc.readers = {}
          /\ \A t \in Threads :
                /\ conc.th[t].pc \in {"lookup", "hit", "miss"} <=> t \in conc.readers
                /\ conc.th[t].pc \in {"insert", "inserted"} <=> conc.writer = t
                /\ conc.th[t].pc = "done"
                      => /\ conc.th[t].ret = EngineDocument(conc.th[t].key)
                         /\ engine.payloads[conc.th[t].key].present
                               => cache[conc.th[t].key] = conc.th[t].ret
          /\ \A id \in Points :
                ~IsAbsent(cache[id])
                    => (engine.payloads[id].present /\ cache[id] = engine.payloads[id].doc))
    /\ [][cache' # cache
            => (conc.writer # 0 /\ conc.th[conc.writer].pc = "insert"
                  /\ conc.readers = {})]_vars

\* Both threads have asked for the same point while it was not cached, both
\* have fetched it from the engine, and both calls have returned the engine's
\* document, which the cache now holds.
C26_Witness ==
    /\ \A t \in Threads :
          /\ conc.th[t].pc = "done"
          /\ conc.th[t].key = 0
          /\ conc.th[t].ret = engine.payloads[0].doc
    /\ engine.payloads[0].present
    /\ cache[0] = engine.payloads[0].doc
    /\ conc.readers = {} /\ conc.writer = 0

---------------------------------------------------------------------------
(* Offsets of update_from *)

\* C31: update_from puts the item at position i of its sequence, counted from
\* 0, at offset i, whatever the storage holds: each iteration makes its one
\* native call on the offset of the position and leaves every other offset
\* of the engine and of the tracking vector as it was; a call that consumed
\* all n items has applied each at its position and returns 0..n; and a call
\* with an empty sequence returns 0..0 with the engine and the tracking
\* vector unchanged.
C31_UpdateFromItemAtItsPosition ==
    /\ []((Returned("update_from") /\ lastOp.res = "Ok")
            => /\ lastOp.range = <<0, Len(upd.items)>>
               /\ Len(calls) = Len(upd.items)
               /\ \A j \in 0..(Len(upd.items) - 1) : ItemApplied(j))
    /\ [][pc = "update_from"
            => /\ calls' # calls
                    => /\ Len(calls') = upd.idx + 1
                       /\ Last(calls').id = upd.idx
                       /\ \A o \in Offsets \ {upd.idx} :
                             /\ engine'.vectors[o] = engine.vectors[o]
                             /\ is_deleted_vector(o)' = is_deleted_vector(o)
               /\ upd.items = <<>>
                    => /\ engine' = engine /\ deleted' = deleted /\ calls' = <<>>
                       /\ pc' = "returned"
                             => (lastOp'.res = "Ok" /\ lastOp'.range = <<0, 0>>)]_vars
    /\ [][(pc = "idle" /\ pc' = "update_from")
            => (engine' = engine /\ deleted' = deleted)]_vars

\* update_from over two items, a live vector and a tombstone, has returned
\* 0..2 on a storage that held a vector at offset 2 before: the items are at
\* offsets 0 and 1 and the vector at offset 2 is where it was.
C31_Witness ==
    /\ Returned("update_from")
    /\ lastOp.res = "Ok"
    /\ ~upd.fresh
    /\ Len(upd.items) = 2
    /\ ~upd.items[1].deleted /\ upd.items[2].deleted
    /\ lastOp.range = <<0, 2>>
    /\ engine.vectors[0].data = upd.items[1].vector.data
    /\ ~engine.vectors[1].present
    /\ engine.vectors[2].present
    /\ hist[2].op = "insert"
    /\ deleted = <<FALSE, TRUE, FALSE>>

=============================================================================
